---- MODULE Spec2Model ----
(***************************************************************************)
(* MLS vs CAMA reconciliation (streamlit_app_FIXED.py).                    *)
(*                                                                         *)
(* Cell values are records [k, n, s]:                                      *)
(*   k = "null"  None / NaN                                                *)
(*   k = "num"   a number, n in units of 10^-6 (exact decimal arithmetic)  *)
(*   k = "str"   text, s the tuple of its characters                       *)
(* Text that reaches numeric parsing is empty, whitespace only, digits     *)
(* only, or contains a letter and no digit, so that parsing is decided by  *)
(* the rules modelled in to_numeric below.  Addresses, cities and postal   *)
(* codes are text of any kind; they only reach format_zillow_url.          *)
(***************************************************************************)
EXTENDS Integers, Sequences, FiniteSets, TLC

\* ------------------------------------------------------------------------
\* Bounds and constants
\* ------------------------------------------------------------------------
Unit == 10 ^ 6           \* model units per 1.0
RtolDen == 1000000000    \* rtol = 1e-9 = 1 / RtolDen
DefaultTolerance == 10000 \* NUMERIC_TOLERANCE = 0.01 in model units
MaxRows == 2             \* rows per input table in the multi-row inputs
MaxRuns == 2             \* runs of the comparison in one session
NumIds == 3              \* distinct parcel identifiers

\* ------------------------------------------------------------------------
\* Values
\* ------------------------------------------------------------------------
Null == [k |-> "null", n |-> 0, s |-> <<>>]
Num(x) == [k |-> "num", n |-> x, s |-> <<>>]
Txt(t) == [k |-> "str", n |-> 0, s |-> t]

Abs(x) == IF x < 0 THEN -x ELSE x

\* pd.isna / pd.notna on a scalar
isna(v) == v.k = "null"
notna(v) == v.k # "null"

DigitChars == <<"0", "1", "2", "3", "4", "5", "6", "7", "8", "9">>
UpperChars == <<"A", "B", "C", "D", "E", "F", "G", "H", "I", "J", "K", "L", "M",
                "N", "O", "P", "Q", "R", "S", "T", "U", "V", "W", "X", "Y", "Z">>
LowerChars == <<"a", "b", "c", "d", "e", "f", "g", "h", "i", "j", "k", "l", "m",
                "n", "o", "p", "q", "r", "s", "t", "u", "v", "w", "x", "y", "z">>

IsDigit(c) == \E i \in 1..10 : DigitChars[i] = c
DigitVal(c) == (CHOOSE i \in 1..10 : DigitChars[i] = c) - 1
IsSpace(c) == c = " "

\* str.lower()
LowerChar(c) ==
    IF \E i \in 1..26 : UpperChars[i] = c
    THEN LowerChars[CHOOSE i \in 1..26 : UpperChars[i] = c]
    ELSE c
lower(t) == [i \in 1..Len(t) |-> LowerChar(t[i])]

\* str.strip()
RECURSIVE lstrip(_)
lstrip(t) == IF t # <<>> /\ IsSpace(Head(t)) THEN lstrip(Tail(t)) ELSE t
RECURSIVE rstrip(_)
rstrip(t) ==
    IF t # <<>> /\ IsSpace(t[Len(t)]) THEN rstrip(SubSeq(t, 1, Len(t) - 1)) ELSE t
strip(t) == rstrip(lstrip(t))

\* needle in haystack
contains(needle, hay) ==
    \E i \in 1..(Len(hay) - Len(needle) + 1) :
        SubSeq(hay, i, i + Len(needle) - 1) = needle

\* decimal digits of a natural number
RECURSIVE NatChars(_)
NatChars(x) ==
    IF x < 10 THEN <<DigitChars[x + 1]>>
    ELSE NatChars(x \div 10) \o <<DigitChars[(x % 10) + 1]>>

\* digits of a natural number with thousands separators (format spec ",")
RECURSIVE GroupedChars(_)
GroupedChars(x) ==
    IF x < 1000 THEN NatChars(x)
    ELSE LET r == x % 1000
         IN GroupedChars(x \div 1000) \o <<",">> \o
            <<DigitChars[(r \div 100) + 1], DigitChars[((r \div 10) % 10) + 1],
              DigitChars[(r % 10) + 1]>>

\* fraction digits of a value in model units, trailing zeros dropped
RECURSIVE FracChars(_, _)
FracChars(f, scale) ==
    IF f = 0 THEN <<>>
    ELSE <<DigitChars[(f \div (scale \div 10)) + 1]>> \o
         FracChars(f % (scale \div 10), scale \div 10)

\* str(value): text as is, a number in shortest decimal notation
pystr(v) ==
    IF v.k = "str" THEN v.s
    ELSE IF v.k = "null" THEN <<"n", "a", "n">>
    ELSE LET a == Abs(v.n)
             body == NatChars(a \div Unit) \o
                     (IF a % Unit = 0 THEN <<>>
                      ELSE <<".">> \o FracChars(a % Unit, Unit))
         IN IF v.n < 0 THEN <<"-">> \o body ELSE body

RECURSIVE ParseDigits(_, _)
ParseDigits(t, acc) ==
    IF t = <<>> THEN acc ELSE ParseDigits(Tail(t), acc * 10 + DigitVal(Head(t)))

\* pd.to_numeric(val, errors=...) on a scalar.  ok = FALSE is the parse
\* failure (ValueError under errors='raise', NaN under errors='coerce').
\* None and the empty string convert to NaN without failing.
to_numeric(v) ==
    IF v.k = "null" THEN [ok |-> TRUE, nan |-> TRUE, n |-> 0]
    ELSE IF v.k = "num" THEN [ok |-> TRUE, nan |-> FALSE, n |-> v.n]
    ELSE IF v.s = <<>> THEN [ok |-> TRUE, nan |-> TRUE, n |-> 0]
    ELSE IF \A i \in 1..Len(v.s) : IsDigit(v.s[i])
         THEN [ok |-> TRUE, nan |-> FALSE, n |-> ParseDigits(v.s, 0) * Unit]
    ELSE [ok |-> FALSE, nan |-> TRUE, n |-> 0]

to_numeric_coerce(v) ==
    LET p == to_numeric(v) IN [nan |-> p.nan, n |-> p.n]

\* variant: the tolerance boundary excluded
isclose_strict(a, b, tol) == Abs(a - b) - tol < Abs(b) \div RtolDen

\* np.isclose(a, b, rtol=1e-9, atol=tol): |a - b| <= atol + rtol * |b|
isclose(a, b, tol) == Abs(a - b) - tol <= Abs(b) \div RtolDen

\* variant: the text comparison of the fallback keeps the case
values_equal_case_sensitive(val1, val2, tol) ==
    LET num1 == to_numeric(val1)
        num2 == to_numeric(val2)
        str1 == IF notna(val1) THEN strip(pystr(val1)) ELSE <<>>
        str2 == IF notna(val2) THEN strip(pystr(val2)) ELSE <<>>
    IN IF num1.ok /\ num2.ok
       THEN IF num1.nan /\ num2.nan THEN TRUE
            ELSE IF num1.nan # num2.nan THEN FALSE
            ELSE isclose(num1.n, num2.n, tol)
       ELSE str1 = str2

\* values_equal(val1, val2) under NUMERIC_TOLERANCE = tol
values_equal(val1, val2, tol) ==
    LET num1 == to_numeric(val1)
        num2 == to_numeric(val2)
        str1 == IF notna(val1) THEN lower(strip(pystr(val1))) ELSE <<>>
        str2 == IF notna(val2) THEN lower(strip(pystr(val2))) ELSE <<>>
    IN IF num1.ok /\ num2.ok
       THEN IF num1.nan /\ num2.nan THEN TRUE
            ELSE IF num1.nan # num2.nan THEN FALSE
            ELSE isclose(num1.n, num2.n, tol)
       ELSE str1 = str2

\* f"{diff:,.2f}" for diff in model units (ties to even)
Format2f(diff) ==
    LET a == Abs(diff)
        per == Unit \div 100
        q == a \div per
        r == a % per
        cents == IF 2 * r > per \/ (2 * r = per /\ q % 2 = 1) THEN q + 1 ELSE q
        f == cents % 100
        body == GroupedChars(cents \div 100) \o <<".">> \o
                <<DigitChars[(f \div 10) + 1], DigitChars[(f % 10) + 1]>>
    IN IF diff < 0 THEN <<"-">> \o body ELSE body

NotApplicable == <<"N", "/", "A">>
TextDifference == <<"T", "e", "x", "t", " ", "d", "i", "f", "f", "e", "r", "e", "n", "c", "e">>

\* variant: the operands of the subtraction exchanged
calculate_difference_swapped(val1, val2) ==
    LET num1 == to_numeric(val1)
        num2 == to_numeric(val2)
    IN IF ~(num1.ok /\ num2.ok) THEN Txt(TextDifference)
       ELSE IF num1.nan \/ num2.nan THEN Txt(NotApplicable)
       ELSE Txt(Format2f(num2.n - num1.n))

\* calculate_difference(val1, val2)
calculate_difference(val1, val2) ==
    LET num1 == to_numeric(val1)
        num2 == to_numeric(val2)
    IN IF ~(num1.ok /\ num2.ok) THEN Txt(TextDifference)
       ELSE IF num1.nan \/ num2.nan THEN Txt(NotApplicable)
       ELSE Txt(Format2f(num1.n - num2.n))

\* ------------------------------------------------------------------------
\* Configuration (module globals of the script)
\* ------------------------------------------------------------------------
UNIQUE_ID_COLUMN == [mls_col |-> "Parcel Number", cama_col |-> "PARID"]

COLUMNS_TO_COMPARE ==
    << [mls_col |-> "Above Grade Finished Area", cama_col |-> "SFLA"],
       [mls_col |-> "Bedrooms Total", cama_col |-> "RMBED"],
       [mls_col |-> "Bathrooms Full", cama_col |-> "FIXBATH"],
       [mls_col |-> "Bathrooms Half", cama_col |-> "FIXHALF"] >>

COLUMNS_TO_COMPARE_SUM ==
    << [mls_col |-> "Below Grade Finished Area",
        cama_cols |-> <<"RECROMAREA", "FINBSMTAREA", "UFEATAREA">>] >>

CentralAir == <<"C", "e", "n", "t", "r", "a", "l", " ", "A", "i", "r">>

COLUMNS_TO_COMPARE_CATEGORICAL ==
    << [mls_col |-> "Cooling", cama_col |-> "HEAT",
        mls_check_contains |-> CentralAir,
        cama_expected_if_true |-> Num(1 * Unit),
        cama_expected_if_false |-> Num(0),
        case_sensitive |-> FALSE] >>

ADDRESS_COLUMNS ==
    [address |-> "Address", city |-> "City",
     state |-> "State or Province", zip |-> "Postal Code"]

ZILLOW_URL_BASE == "https://www.zillow.com/homes/"

\* ------------------------------------------------------------------------
\* format_zillow_url
\* ------------------------------------------------------------------------
\* the regex class \w
IsWordChar(c) ==
    \/ IsDigit(c)
    \/ c = "_"
    \/ \E i \in 1..26 : UpperChars[i] = c \/ LowerChars[i] = c

\* re.sub(r'[^\w\s-]', '', t)
drop_punctuation(t) ==
    SelectSeq(t, LAMBDA c : IsWordChar(c) \/ IsSpace(c) \/ c = "-")

\* re.sub(r'\s+', '-', t)
RECURSIVE hyphenate(_)
hyphenate(t) ==
    IF t = <<>> THEN <<>>
    ELSE IF IsSpace(Head(t)) THEN <<"-">> \o hyphenate(lstrip(t))
    ELSE <<Head(t)>> \o hyphenate(Tail(t))

\* str.split('-')[0]
RECURSIVE before_hyphen(_)
before_hyphen(t) ==
    IF t = <<>> \/ Head(t) = "-" THEN <<>>
    ELSE <<Head(t)>> \o before_hyphen(Tail(t))

\* the pattern \s+(Apt|Unit|#|Suite)\s*[\w-]*$ matches from position i,
\* ignoring case
UnitWords ==
    {<<"a", "p", "t">>, <<"u", "n", "i", "t">>, <<"#">>,
     <<"s", "u", "i", "t", "e">>}

UnitSuffixAt(t, i) ==
    /\ IsSpace(t[i])
    /\ LET rest == lstrip(SubSeq(t, i, Len(t)))
       IN \E w \in UnitWords :
            /\ Len(rest) >= Len(w)
            /\ lower(SubSeq(rest, 1, Len(w))) = w
            /\ LET tail == lstrip(SubSeq(rest, Len(w) + 1, Len(rest)))
               IN \A j \in 1..Len(tail) : IsWordChar(tail[j]) \/ tail[j] = "-"

\* re.sub of that pattern by '': the leftmost match is cut off
strip_unit(t) ==
    IF \E i \in 1..Len(t) : UnitSuffixAt(t, i)
    THEN LET i == CHOOSE i \in 1..Len(t) :
                    /\ UnitSuffixAt(t, i)
                    /\ \A j \in 1..(i - 1) : ~UnitSuffixAt(t, j)
         IN SubSeq(t, 1, i - 1)
    ELSE t

\* the link is None only when a component is null; the state is not used
format_zillow_url(address, city, state, zip_code) ==
    IF isna(address) \/ isna(city) \/ isna(zip_code) THEN Null
    ELSE LET address_clean == strip_unit(strip(pystr(address)))
             city_clean == strip(pystr(city))
             zip_clean == before_hyphen(strip(pystr(zip_code)))
             address_formatted == hyphenate(drop_punctuation(address_clean))
             city_formatted == hyphenate(drop_punctuation(city_clean))
         IN Txt(<<ZILLOW_URL_BASE>> \o address_formatted \o <<"-">>
                \o city_formatted \o <<"-", "O", "H", "-">>
                \o zip_clean \o <<"_", "r", "b", "/">>)

\* ------------------------------------------------------------------------
\* Tables.  A table is NoTable (None) or [columns, rows]: the set of column
\* names and the sequence of rows, each row a function on the columns.
\* ------------------------------------------------------------------------
NoTable == [columns |-> {"<None>"}, rows |-> <<>>]
EmptyFrame == <<>>

\* row.get(col) / row.get(col, default)
get(row, col, default) == IF col \in DOMAIN row THEN row[col] ELSE default

\* df.rename(columns={old: new}) on a copy
rename(df, old, new) ==
    LET ren(c) == IF c = old THEN new ELSE c
        unren(c) == IF c = new THEN old ELSE c
        cols == {ren(c) : c \in df.columns}
    IN [columns |-> cols,
        rows |-> [i \in 1..Len(df.rows) |-> [c \in cols |-> df.rows[i][unren(c)]]]]

\* the key values of a frame, ascending (the outer join sorts its keys)
RECURSIVE SortedKeys(_)
SortedKeys(S) ==
    IF S = {} THEN <<>>
    ELSE LET m == CHOOSE x \in S : \A y \in S : x <= y
         IN <<m>> \o SortedKeys(S \ {m})

KeysOf(df, key) == {df.rows[i][key].n : i \in 1..Len(df.rows)}
RowsWithKey(df, key, k) == SelectSeq(df.rows, LAMBDA r : r[key].n = k)

\* one joined row: the columns of both frames, NaN where a side is absent;
\* a non-key column that both frames have is kept twice, as <name>_x (left)
\* and <name>_y (right), and no longer under its own name
JoinRow(left, right, key, l, r, status) ==
    LET overlap == (left.columns \cap right.columns) \ {key}
        xs == {c \o "_x" : c \in overlap}
        ys == {c \o "_y" : c \in overlap}
        plain == (left.columns \cup right.columns) \ overlap
        side(c) ==
            IF c \in xs
            THEN LET o == CHOOSE d \in overlap : d \o "_x" = c
                 IN IF o \in DOMAIN l THEN l[o] ELSE Null
            ELSE LET o == CHOOSE d \in overlap : d \o "_y" = c
                 IN IF o \in DOMAIN r THEN r[o] ELSE Null
    IN [merge |-> status,
        vals |-> [c \in plain \cup xs \cup ys |->
                    IF c \in plain
                    THEN IF c \in DOMAIN l THEN l[c]
                         ELSE IF c \in DOMAIN r THEN r[c]
                         ELSE Null
                    ELSE side(c)]]

\* every pairing of the left rows with the right rows of one key, left-major
RECURSIVE PairRows(_, _, _, _, _)
PairRows(left, right, key, ls, rs) ==
    IF ls = <<>> THEN <<>>
    ELSE [j \in 1..Len(rs) |-> JoinRow(left, right, key, Head(ls), rs[j], "both")]
         \o PairRows(left, right, key, Tail(ls), rs)

RowsOfKey(left, right, key, k) ==
    LET ls == RowsWithKey(left, key, k)
        rs == RowsWithKey(right, key, k)
        nokey == (key :> Num(k))
    IN IF rs = <<>>
       THEN [i \in 1..Len(ls) |-> JoinRow(left, right, key, ls[i], nokey, "left_only")]
       ELSE IF ls = <<>>
       THEN [j \in 1..Len(rs) |-> JoinRow(left, right, key, nokey, rs[j], "right_only")]
       ELSE PairRows(left, right, key, ls, rs)

RECURSIVE ConcatKeys(_, _, _, _)
ConcatKeys(left, right, key, ks) ==
    IF ks = <<>> THEN <<>>
    ELSE RowsOfKey(left, right, key, Head(ks)) \o
         ConcatKeys(left, right, key, Tail(ks))

\* variant: a left join, the keys of the right frame alone are lost
merge_left(left, right, key) ==
    ConcatKeys(left, right, key, SortedKeys(KeysOf(left, key)))

\* pd.merge(left, right, on=key, how='outer', indicator=True)
merge_outer(left, right, key) ==
    ConcatKeys(left, right, key,
               SortedKeys(KeysOf(left, key) \cup KeysOf(right, key)))

\* pd.merge(left, right, on=key, how='inner'): left order is kept
RECURSIVE InnerRows(_, _, _, _)
InnerRows(left, right, key, ls) ==
    IF ls = <<>> THEN <<>>
    ELSE PairRows(left, right, key, <<Head(ls)>>,
                  RowsWithKey(right, key, Head(ls)[key].n))
         \o InnerRows(left, right, key, Tail(ls))

merge_inner(left, right, key) == InnerRows(left, right, key, left.rows)

\* ------------------------------------------------------------------------
\* The body of the row loop of compare_data_enhanced for a 'both' row.
\* Each rule yields [fc, mm]: the names appended to fields_compared and
\* the entries appended to record_mismatches.
\* The address columns and the Zillow link are added to the entries by
\* with_context; the other context columns copied verbatim into the entries
\* (NOPAR, ADDITIONAL_PARCELS, Listing_Number, SALEKEY, Parcel_URL) are left
\* out of the entries.
\* ------------------------------------------------------------------------
is_blank(v) == isna(v) \/ (v.k = "str" /\ strip(v.s) = <<>>)

NoOutcome == [fc |-> <<>>, mm |-> <<>>]

MismatchEntry(record_id, field_mls, field_cama, mls_val, cama_val, diff, expected) ==
    [Parcel_ID |-> record_id, Field_MLS |-> field_mls, Field_CAMA |-> field_cama,
     MLS_Value |-> mls_val, CAMA_Value |-> cama_val, Difference |-> diff,
     Expected_CAMA_Value |-> expected]

\* variant: the zero test satisfied by a zero on either side
either_zero(mls_val, cama_val) ==
    LET mls_numeric == to_numeric_coerce(mls_val)
        cama_numeric == to_numeric_coerce(cama_val)
    IN (~mls_numeric.nan /\ mls_numeric.n = 0) \/
       (~cama_numeric.nan /\ cama_numeric.n = 0)

\* the zero test of the direct rule: both sides numerically zero
both_zero(mls_val, cama_val) ==
    LET mls_numeric == to_numeric_coerce(mls_val)
        cama_numeric == to_numeric_coerce(cama_val)
    IN (~mls_numeric.nan /\ mls_numeric.n = 0) /\
       (~cama_numeric.nan /\ cama_numeric.n = 0)

\* variant: the zero test comes before the field is counted as compared
direct_rule_skip_uncounted(row, columns, mapping, record_id, skip_zero, tol) ==
    LET mls_col == mapping.mls_col
        cama_col == mapping.cama_col
        mls_val == get(row, mls_col, Null)
        cama_val == get(row, cama_col, Null)
    IN IF mls_col \notin columns \/ cama_col \notin columns THEN NoOutcome
       ELSE IF is_blank(mls_val) \/ is_blank(cama_val) THEN NoOutcome
       ELSE IF skip_zero /\ both_zero(mls_val, cama_val) THEN NoOutcome
       ELSE IF ~values_equal(mls_val, cama_val, tol)
            THEN [fc |-> <<mls_col>>,
                  mm |-> <<MismatchEntry(record_id, mls_col, cama_col, mls_val, cama_val,
                                         calculate_difference(mls_val, cama_val), Null)>>]
       ELSE [fc |-> <<mls_col>>, mm |-> <<>>]

\* one mapping of cols_to_compare_mapping
direct_rule(row, columns, mapping, record_id, skip_zero, tol) ==
    LET mls_col == mapping.mls_col
        cama_col == mapping.cama_col
        mls_val == get(row, mls_col, Null)
        cama_val == get(row, cama_col, Null)
    IN IF mls_col \notin columns \/ cama_col \notin columns THEN NoOutcome
       ELSE IF is_blank(mls_val) \/ is_blank(cama_val) THEN NoOutcome
       ELSE IF skip_zero /\ both_zero(mls_val, cama_val)
            THEN [fc |-> <<mls_col>>, mm |-> <<>>]
       ELSE IF ~values_equal(mls_val, cama_val, tol)
            THEN [fc |-> <<mls_col>>,
                  mm |-> <<MismatchEntry(record_id, mls_col, cama_col, mls_val, cama_val,
                                         calculate_difference(mls_val, cama_val), Null)>>]
       ELSE [fc |-> <<mls_col>>, mm |-> <<>>]

\* the accumulation loop over cama_cols: [blank, nan, n]
RECURSIVE sum_components(_, _, _)
sum_components(row, cama_cols, acc) ==
    IF cama_cols = <<>> THEN acc
    ELSE LET val == get(row, Head(cama_cols), Null)
             num == to_numeric_coerce(val)
         IN sum_components(row, Tail(cama_cols),
               IF notna(val)
               THEN [blank |-> FALSE, nan |-> acc.nan \/ num.nan,
                     n |-> IF acc.nan \/ num.nan THEN 0 ELSE acc.n + num.n]
               ELSE acc)

RECURSIVE join(_, _)
join(sep, names) ==
    IF names = <<>> THEN ""
    ELSE IF Len(names) = 1 THEN names[1]
    ELSE names[1] \o sep \o join(sep, Tail(names))

\* variant: the sum rule is skipped only when every component column is
\* missing, a missing component otherwise reads as null
sum_rule_all_missing(row, columns, mapping, record_id, skip_zero, tol) ==
    LET mls_col == mapping.mls_col
        cama_cols == mapping.cama_cols
        mls_val == get(row, mls_col, Null)
        acc == sum_components(row, cama_cols, [blank |-> TRUE, nan |-> FALSE, n |-> 0])
        cama_sum == IF acc.nan THEN Null ELSE Num(acc.n)
        mls_numeric == to_numeric_coerce(mls_val)
    IN IF mls_col \notin columns THEN NoOutcome
       ELSE IF \A i \in 1..Len(cama_cols) : cama_cols[i] \notin columns THEN NoOutcome
       ELSE IF is_blank(mls_val) THEN NoOutcome
       ELSE IF acc.blank THEN NoOutcome
       ELSE IF skip_zero /\ (~mls_numeric.nan /\ mls_numeric.n = 0)
                         /\ (~acc.nan /\ acc.n = 0)
            THEN [fc |-> <<mls_col>>, mm |-> <<>>]
       ELSE IF ~values_equal(mls_val, cama_sum, tol)
            THEN [fc |-> <<mls_col>>,
                  mm |-> <<MismatchEntry(record_id, mls_col,
                                         "SUM(" \o join(", ", cama_cols) \o ")",
                                         mls_val, cama_sum,
                                         calculate_difference(mls_val, cama_sum), Null)>>]
       ELSE [fc |-> <<mls_col>>, mm |-> <<>>]

\* one mapping of cols_to_compare_sum
sum_rule(row, columns, mapping, record_id, skip_zero, tol) ==
    LET mls_col == mapping.mls_col
        cama_cols == mapping.cama_cols
        mls_val == get(row, mls_col, Null)
        acc == sum_components(row, cama_cols, [blank |-> TRUE, nan |-> FALSE, n |-> 0])
        cama_sum == IF acc.nan THEN Null ELSE Num(acc.n)
        mls_numeric == to_numeric_coerce(mls_val)
    IN IF mls_col \notin columns THEN NoOutcome
       ELSE IF \E i \in 1..Len(cama_cols) : cama_cols[i] \notin columns THEN NoOutcome
       ELSE IF is_blank(mls_val) THEN NoOutcome
       ELSE IF acc.blank THEN NoOutcome
       ELSE IF skip_zero /\ (~mls_numeric.nan /\ mls_numeric.n = 0)
                         /\ (~acc.nan /\ acc.n = 0)
            THEN [fc |-> <<mls_col>>, mm |-> <<>>]
       ELSE IF ~values_equal(mls_val, cama_sum, tol)
            THEN [fc |-> <<mls_col>>,
                  mm |-> <<MismatchEntry(record_id, mls_col,
                                         "SUM(" \o join(", ", cama_cols) \o ")",
                                         mls_val, cama_sum,
                                         calculate_difference(mls_val, cama_sum), Null)>>]
       ELSE [fc |-> <<mls_col>>, mm |-> <<>>]

\* the text test shared by categorical_match and the categorical loop
text_found(mls_val, mapping) ==
    LET mls_str == IF notna(mls_val) THEN strip(pystr(mls_val)) ELSE <<>>
    IN IF ~mapping.case_sensitive
       THEN contains(lower(mapping.mls_check_contains), lower(mls_str))
       ELSE contains(mapping.mls_check_contains, mls_str)

expected_cama(mls_val, mapping) ==
    IF text_found(mls_val, mapping) THEN mapping.cama_expected_if_true
    ELSE mapping.cama_expected_if_false

\* categorical_match(mls_val, cama_val, mapping); errors='coerce' never
\* raises, so the string comparison of the except branch is never taken
categorical_match(mls_val, cama_val, mapping, tol) ==
    LET cama_numeric == to_numeric_coerce(cama_val)
        expected_numeric == to_numeric_coerce(expected_cama(mls_val, mapping))
    IN IF cama_numeric.nan /\ expected_numeric.nan THEN TRUE
       ELSE IF cama_numeric.nan \/ expected_numeric.nan THEN FALSE
       ELSE isclose(cama_numeric.n, expected_numeric.n, tol)

\* one mapping of cols_to_compare_categorical
categorical_rule(row, columns, mapping, record_id, tol) ==
    LET mls_col == mapping.mls_col
        cama_col == mapping.cama_col
        mls_val == get(row, mls_col, Null)
        cama_val == get(row, cama_col, Null)
    IN IF mls_col \notin columns \/ cama_col \notin columns THEN NoOutcome
       ELSE IF is_blank(mls_val) \/ is_blank(cama_val) THEN NoOutcome
       ELSE IF ~categorical_match(mls_val, cama_val, mapping, tol)
            THEN [fc |-> <<mls_col>>,
                  mm |-> <<MismatchEntry(record_id, mls_col, cama_col, mls_val, cama_val,
                                         Null, expected_cama(mls_val, mapping))>>]
       ELSE [fc |-> <<mls_col>>, mm |-> <<>>]

\* the three rule loops in source order, accumulated into [fc, mm]
RECURSIVE direct_rules(_, _, _, _, _, _)
direct_rules(row, columns, mappings, record_id, skip_zero, tol) ==
    IF mappings = <<>> THEN NoOutcome
    ELSE LET h == direct_rule(row, columns, Head(mappings), record_id, skip_zero, tol)
             t == direct_rules(row, columns, Tail(mappings), record_id, skip_zero, tol)
         IN [fc |-> h.fc \o t.fc, mm |-> h.mm \o t.mm]

RECURSIVE sum_rules(_, _, _, _, _, _)
sum_rules(row, columns, mappings, record_id, skip_zero, tol) ==
    IF mappings = <<>> THEN NoOutcome
    ELSE LET h == sum_rule(row, columns, Head(mappings), record_id, skip_zero, tol)
             t == sum_rules(row, columns, Tail(mappings), record_id, skip_zero, tol)
         IN [fc |-> h.fc \o t.fc, mm |-> h.mm \o t.mm]

RECURSIVE categorical_rules(_, _, _, _, _)
categorical_rules(row, columns, mappings, record_id, tol) ==
    IF mappings = <<>> THEN NoOutcome
    ELSE LET h == categorical_rule(row, columns, Head(mappings), record_id, tol)
             t == categorical_rules(row, columns, Tail(mappings), record_id, tol)
         IN [fc |-> h.fc \o t.fc, mm |-> h.mm \o t.mm]

\* variant: the categorical loop runs before the direct and the sum loop
compare_row_categorical_first(row, columns, record_id, direct, summed, categorical, skip_zero, tol) ==
    LET d == direct_rules(row, columns, direct, record_id, skip_zero, tol)
        s == sum_rules(row, columns, summed, record_id, skip_zero, tol)
        c == categorical_rules(row, columns, categorical, record_id, tol)
    IN [fields_compared |-> c.fc \o d.fc \o s.fc,
        record_mismatches |-> c.mm \o d.mm \o s.mm]

\* record_mismatches and fields_compared of one 'both' row
compare_row(row, columns, record_id, direct, summed, categorical, skip_zero, tol) ==
    LET d == direct_rules(row, columns, direct, record_id, skip_zero, tol)
        s == sum_rules(row, columns, summed, record_id, skip_zero, tol)
        c == categorical_rules(row, columns, categorical, record_id, tol)
    IN [fields_compared |-> d.fc \o s.fc \o c.fc,
        record_mismatches |-> d.mm \o s.mm \o c.mm]

PerfectEntry(record_id, fields_compared) ==
    [Parcel_ID |-> record_id, Fields_Compared |-> Len(fields_compared),
     Fields_List |-> join(", ", fields_compared)]

\* variant: the perfect-match test without the mismatch condition
perfect_match_any(record_id, outcome) ==
    IF outcome.fields_compared # <<>>
    THEN <<PerfectEntry(record_id, outcome.fields_compared)>>
    ELSE <<>>

\* the perfect_matches.append of the row, or nothing
perfect_match(record_id, outcome) ==
    IF outcome.record_mismatches = <<>> /\ outcome.fields_compared # <<>>
    THEN <<PerfectEntry(record_id, outcome.fields_compared)>>
    ELSE <<>>

\* ------------------------------------------------------------------------
\* State
\* ------------------------------------------------------------------------
VARIABLES
    df_mls,                       \* the MLS table handed to the run
    df_cama,                      \* the CAMA table handed to the run
    cols_to_compare_categorical,  \* the categorical rule list of the run
    NUMERIC_TOLERANCE,            \* global, set from the sidebar
    SKIP_ZERO_VALUES,             \* global, set from the sidebar
    pc,                           \* "call", "loop", "done"
    merged_df,                    \* the outer join, a sequence of joined rows
    matched_df,                   \* the inner join
    index,                        \* position of the row loop in merged_df
    missing_in_cama,
    missing_in_mls,
    value_mismatches,
    perfect_matches,
    st_error,                     \* messages reported through st.error
    result,                       \* the returned five frames, once returned
    val1, val2,                   \* arguments of a direct comparator call
    equal,                        \* its results, [fwd, rev], once called
    difference,                   \* result of a direct calculate_difference call
    runs,                         \* number of the current run in the session
    previous,                     \* flag and result of the run before
    session_state,                \* st.session_state['city_comparison']
    zip_data                      \* the archive built after the current run

vars == <<df_mls, df_cama, cols_to_compare_categorical, NUMERIC_TOLERANCE,
          SKIP_ZERO_VALUES, pc, merged_df, matched_df, index, missing_in_cama,
          missing_in_mls, value_mismatches, perfect_matches, st_error, result,
          val1, val2, equal, difference, runs, previous, session_state,
          zip_data>>

inputs == <<df_mls, df_cama, cols_to_compare_categorical, NUMERIC_TOLERANCE,
            SKIP_ZERO_VALUES>>
probe == <<val1, val2, equal, difference>>
script == <<runs, previous, session_state, zip_data>>

NoResult == [returned |-> FALSE]
NoPrevious == [ran |-> FALSE]
NoCity == [stored |-> FALSE]
NoZip == [built |-> FALSE]
Returned(a, b, c, d, e) ==
    [returned |-> TRUE, missing_in_cama |-> a, missing_in_mls |-> b,
     value_mismatches |-> c, matched_df |-> d, perfect_matches |-> e]

\* ------------------------------------------------------------------------
\* Input tables
\* ------------------------------------------------------------------------
U(x) == x * Unit
Ids == 1..NumIds

TxtAbc == Txt(<<"a", "b", "c">>)
TxtABCsp == Txt(<<"A", "B", "C", " ">>)
TxtEmpty == Txt(<<>>)
TxtSpaces == Txt(<<" ", " ">>)
TxtNone == Txt(<<"N", "o", "n", "e">>)
TxtCentralAirFan ==
    Txt(CentralAir \o <<",", " ", "C", "e", "i", "l", "i", "n", "g", " ", "F", "a", "n">>)
TxtCentralLower == Txt(lower(CentralAir))
TxtY == Txt(<<"Y">>)
TxtN == Txt(<<"N">>)

MLSRow(id, agfa, beds, bgfa, cooling) ==
    ("Parcel Number" :> Num(id)) @@ ("Above Grade Finished Area" :> agfa) @@
    ("Bedrooms Total" :> beds) @@ ("Below Grade Finished Area" :> bgfa) @@
    ("Cooling" :> cooling)

CAMARow(id, sfla, rmbed, rec, fin, ufeat, heat) ==
    ("PARID" :> Num(id)) @@ ("SFLA" :> sfla) @@ ("RMBED" :> rmbed) @@
    ("RECROMAREA" :> rec) @@ ("FINBSMTAREA" :> fin) @@ ("UFEATAREA" :> ufeat) @@
    ("HEAT" :> heat)

MLSColumns == DOMAIN MLSRow(1, Null, Null, Null, Null)
CAMAColumns == DOMAIN CAMARow(1, Null, Null, Null, Null, Null, Null)
Table(columns, rows) == [columns |-> columns, rows |-> rows]

\* one record on each side, the values of one rule kind varied
DirectMLS == {Null, TxtSpaces, Num(0), Num(U(5)), Num(U(100)), TxtAbc}
DirectCAMA == {Null, TxtEmpty, Num(0), Num(U(5)), Num(U(100) + 10000),
               Num(U(100) + 20000), TxtABCsp, Txt(<<"0">>)}
DirectPairs ==
    {<<MLSRow(1, a, Null, Null, Null), CAMARow(1, b, Null, Null, Null, Null, Null)>> :
        a \in DirectMLS, b \in DirectCAMA}

SumMLS == {Null, TxtSpaces, Num(0), Num(U(800)), TxtAbc}
SumComponents ==
    {Null, Num(0), Num(U(300)), TxtEmpty, TxtAbc} \X {Null, Num(U(200))} \X
    {Null, Num(0), Num(U(250)), Num(U(300))}
SumPairs ==
    {<<MLSRow(1, Null, Null, a, Null), CAMARow(1, Null, Null, c[1], c[2], c[3], Null)>> :
        a \in SumMLS, c \in SumComponents}

CoolingValues == {Null, TxtSpaces, TxtNone, TxtCentralAirFan, TxtCentralLower}
HeatValues == {Null, TxtEmpty, Num(0), Num(U(1)), Num(U(1) + 5000), TxtY, TxtN}
CategoricalPairs ==
    {<<MLSRow(1, Null, Null, Null, a), CAMARow(1, Null, Null, Null, Null, Null, b)>> :
        a \in CoolingValues, b \in HeatValues}

\* one record on each side, every rule kind populated
MixedDirect == {<<Num(0), Num(0)>>, <<Num(U(100)), Num(U(100) + 10000)>>,
                <<Num(U(100)), Num(U(100) + 20000)>>}
MixedBeds == {<<Num(U(3)), Num(U(3))>>, <<Num(U(3)), Num(U(4))>>, <<Null, Num(U(3))>>}
MixedSum == {<<Num(U(800)), Num(U(300))>>, <<Num(U(800)), Num(U(250))>>,
             <<Num(0), Num(0)>>}
MixedCat == {<<TxtCentralAirFan, Num(U(1))>>, <<TxtNone, Num(U(1))>>,
             <<Null, Num(U(1))>>}
MixedPairs ==
    {<<MLSRow(1, d[1], b[1], s[1], c[1]),
       CAMARow(1, d[2], b[2], Num(U(300)), Num(U(200)), s[2], c[2])>> :
        d \in MixedDirect, b \in MixedBeds, s \in MixedSum, c \in MixedCat}

\* several records: identifiers distinct within a table, one direct field
RECURSIVE IdSeqs(_)
IdSeqs(n) ==
    IF n = 0 THEN {<<>>}
    ELSE LET shorter == IdSeqs(n - 1)
         IN shorter \cup
            {Append(q, i) : q \in {x \in shorter : Len(x) = n - 1},
                            i \in Ids} 
Distinct(q) == \A i, j \in 1..Len(q) : i # j => q[i] # q[j]
KeySeqs == {q \in IdSeqs(MaxRows) : Distinct(q)}

LongMLSValues == {Num(0), Num(U(100))}
LongCAMAValues == {Num(0), Num(U(100) + 20000)}
LongMLSTables ==
    UNION {{Table(MLSColumns, [i \in 1..Len(q) |-> MLSRow(q[i], v[i], Null, Null, Null)]) :
              v \in [1..Len(q) -> LongMLSValues]} : q \in KeySeqs}
LongCAMATables ==
    UNION {{Table(CAMAColumns, [i \in 1..Len(q) |->
                     CAMARow(q[i], v[i], Null, Null, Null, Null, Null)]) :
              v \in [1..Len(q) -> LongCAMAValues]} : q \in KeySeqs}

\* a table without its key column
drop_column(df, col) ==
    [columns |-> df.columns \ {col},
     rows |-> [i \in 1..Len(df.rows) |-> [c \in df.columns \ {col} |-> df.rows[i][c]]]]

\* a table without some of its columns
drop_columns(df, cols) ==
    [columns |-> df.columns \ cols,
     rows |-> [i \in 1..Len(df.rows) |-> [c \in df.columns \ cols |-> df.rows[i][c]]]]

\* rule columns that an uploaded table may lack
DroppedColumns ==
    {{"SFLA"}, {"Above Grade Finished Area"}, {"UFEATAREA"},
     {"RECROMAREA", "FINBSMTAREA"}, {"Cooling"}, {"HEAT", "Bedrooms Total"}}

\* several records, every rule kind populated: a record whose four rules
\* all mismatch, or whose four rules all match
RichMLSRow(id) == MLSRow(id, Num(U(100)), Num(U(3)), Num(U(800)), TxtNone)
RichCAMARow(id, same) ==
    IF same
    THEN CAMARow(id, Num(U(100)), Num(U(3)), Num(U(300)), Num(U(200)),
                 Num(U(300)), Num(0))
    ELSE CAMARow(id, Num(U(100) + 20000), Num(U(4)), Num(U(300)), Num(U(200)),
                 Num(U(250)), Num(U(1)))
RichMLSTables ==
    {Table(MLSColumns, [i \in 1..Len(q) |-> RichMLSRow(q[i])]) : q \in KeySeqs}
RichCAMATables ==
    UNION {{Table(CAMAColumns, [i \in 1..Len(q) |-> RichCAMARow(q[i], v[i])]) :
              v \in [1..Len(q) -> BOOLEAN]} : q \in KeySeqs}

\* one record with the address columns of the MLS export
TxtOakSt == Txt(<<"1", "2", " ", "O", "a", "k", " ", "S", "t", ".">>)
TxtOakStApt ==
    Txt(<<"1", "2", " ", "O", "a", "k", " ", "S", "t", " ", "A", "p", "t", " ",
          "4", "B">>)
TxtNorthCanton ==
    Txt(<<"N", "o", "r", "t", "h", " ", "C", "a", "n", "t", "o", "n">>)
TxtZipPlus4 == Txt(<<"4", "4", "7", "2", "0", "-", "1", "2", "3", "4">>)
AddressValues == {Null, TxtEmpty, TxtOakSt, TxtOakStApt}
CityValues == {Null, TxtEmpty, TxtNorthCanton}
ZipValues == {Null, TxtEmpty, TxtZipPlus4}
AddressRow(address, city, zip_code) ==
    (ADDRESS_COLUMNS.address :> address) @@ (ADDRESS_COLUMNS.city :> city) @@
    (ADDRESS_COLUMNS.state :> Txt(<<"O", "H">>)) @@ (ADDRESS_COLUMNS.zip :> zip_code)
AddressColumns == DOMAIN AddressRow(Null, Null, Null)
AddressMLSTables ==
    {drop_columns(Table(MLSColumns \cup AddressColumns,
                        <<MLSRow(1, Num(U(100)), Null, Null, Null)
                          @@ AddressRow(a, c, z)>>), absent) :
        a \in AddressValues, c \in CityValues, z \in ZipValues,
        absent \in SUBSET {ADDRESS_COLUMNS.address, ADDRESS_COLUMNS.zip}}
\* the CAMA table may carry a column named City of its own
AddressCAMATables ==
    {Table(CAMAColumns, <<CAMARow(1, v, Null, Null, Null, Null, Null)>>) :
        v \in {Num(U(100)), Num(U(100) + 20000)}}
    \cup
    {Table(CAMAColumns \cup {"City"},
           <<CAMARow(1, v, Null, Null, Null, Null, Null) @@ ("City" :> TxtNorthCanton)>>) :
        v \in {Num(U(100)), Num(U(100) + 20000)}}

Tolerances == {DefaultTolerance, U(10)}

CategoricalRuleLists ==
    {COLUMNS_TO_COMPARE_CATEGORICAL,
     <<[COLUMNS_TO_COMPARE_CATEGORICAL[1] EXCEPT !.case_sensitive = TRUE]>>,
     <<[COLUMNS_TO_COMPARE_CATEGORICAL[1] EXCEPT !.cama_expected_if_true = TxtY,
                                                !.cama_expected_if_false = TxtN]>>}

\* comparator arguments
ProbeValues ==
    {Null, TxtEmpty, TxtAbc, TxtABCsp, Txt(<<"5">>), Num(0), Num(U(5)), Num(-U(5)),
     Num(U(100)), Num(U(100) + 10000), Num(U(100) + 20000),
     Num(999996000), Num(1000006001)}

NotCalled == [called |-> FALSE]

\* ------------------------------------------------------------------------
\* Initial states: the inputs of one run of compare_data_enhanced
\* ------------------------------------------------------------------------
Fresh ==
    /\ pc = "call"
    /\ merged_df = <<>>
    /\ matched_df = <<>>
    /\ index = 1
    /\ missing_in_cama = <<>>
    /\ missing_in_mls = <<>>
    /\ value_mismatches = <<>>
    /\ perfect_matches = <<>>
    /\ st_error = <<>>
    /\ result = NoResult
    /\ val1 = Null
    /\ val2 = Null
    /\ equal = NotCalled
    /\ difference = NotCalled
    /\ runs = 1
    /\ previous = NoPrevious
    /\ session_state = NoCity
    /\ zip_data = NoZip

InitOneRecord ==
    /\ \E p \in DirectPairs \cup SumPairs \cup MixedPairs :
          /\ df_mls = Table(MLSColumns, <<p[1]>>)
          /\ df_cama = Table(CAMAColumns, <<p[2]>>)
    /\ cols_to_compare_categorical = COLUMNS_TO_COMPARE_CATEGORICAL
    /\ NUMERIC_TOLERANCE \in Tolerances
    /\ SKIP_ZERO_VALUES \in BOOLEAN

InitCategorical ==
    /\ \E p \in CategoricalPairs :
          /\ df_mls = Table(MLSColumns, <<p[1]>>)
          /\ df_cama = Table(CAMAColumns, <<p[2]>>)
    /\ cols_to_compare_categorical \in CategoricalRuleLists
    /\ NUMERIC_TOLERANCE \in Tolerances
    /\ SKIP_ZERO_VALUES \in BOOLEAN

InitManyRecords ==
    /\ df_mls \in LongMLSTables
    /\ df_cama \in LongCAMATables
    /\ cols_to_compare_categorical = COLUMNS_TO_COMPARE_CATEGORICAL
    /\ NUMERIC_TOLERANCE = DefaultTolerance
    /\ SKIP_ZERO_VALUES \in BOOLEAN

\* a rule column is not in the uploaded tables
InitMissingColumns ==
    /\ \E p \in MixedPairs, absent \in DroppedColumns :
          /\ df_mls = drop_columns(Table(MLSColumns, <<p[1]>>), absent)
          /\ df_cama = drop_columns(Table(CAMAColumns, <<p[2]>>), absent)
    /\ cols_to_compare_categorical = COLUMNS_TO_COMPARE_CATEGORICAL
    /\ NUMERIC_TOLERANCE = DefaultTolerance
    /\ SKIP_ZERO_VALUES \in BOOLEAN

InitRichRecords ==
    /\ df_mls \in RichMLSTables
    /\ df_cama \in RichCAMATables
    /\ cols_to_compare_categorical = COLUMNS_TO_COMPARE_CATEGORICAL
    /\ NUMERIC_TOLERANCE = DefaultTolerance
    /\ SKIP_ZERO_VALUES = TRUE

InitAddress ==
    /\ df_mls \in AddressMLSTables
    /\ df_cama \in AddressCAMATables
    /\ cols_to_compare_categorical = COLUMNS_TO_COMPARE_CATEGORICAL
    /\ NUMERIC_TOLERANCE = DefaultTolerance
    /\ SKIP_ZERO_VALUES = TRUE

\* a table that is None or lacks its key column
InitUnusable ==
    /\ \E m \in {t \in LongMLSTables : Len(t.rows) <= 1},
          c \in {t \in LongCAMATables : Len(t.rows) <= 1},
          bm, bc \in {"ok", "nokey", "none"} :
          /\ bm # "ok" \/ bc # "ok"
          /\ df_mls = CASE bm = "ok" -> m
                        [] bm = "nokey" -> drop_column(m, UNIQUE_ID_COLUMN.mls_col)
                        [] OTHER -> NoTable
          /\ df_cama = CASE bc = "ok" -> c
                         [] bc = "nokey" -> drop_column(c, UNIQUE_ID_COLUMN.cama_col)
                         [] OTHER -> NoTable
    /\ cols_to_compare_categorical = COLUMNS_TO_COMPARE_CATEGORICAL
    /\ NUMERIC_TOLERANCE = DefaultTolerance
    /\ SKIP_ZERO_VALUES = TRUE

Init ==
    /\ Fresh
    /\ \/ InitOneRecord
       \/ InitCategorical
       \/ InitManyRecords
       \/ InitMissingColumns
       \/ InitRichRecords
       \/ InitAddress
       \/ InitUnusable

\* ------------------------------------------------------------------------
\* compare_data_enhanced
\* ------------------------------------------------------------------------
usable ==
    /\ df_mls # NoTable
    /\ df_cama # NoTable
    /\ UNIQUE_ID_COLUMN.mls_col \in df_mls.columns
    /\ UNIQUE_ID_COLUMN.cama_col \in df_cama.columns

\* variant: the early return without the st.error report
ReturnEmptySilent ==
    /\ pc = "call"
    /\ ~usable
    /\ result' = Returned(EmptyFrame, EmptyFrame, EmptyFrame, EmptyFrame, EmptyFrame)
    /\ pc' = "done"
    /\ UNCHANGED <<inputs, probe, script,
                   merged_df, matched_df, index, missing_in_cama,
                   missing_in_mls, value_mismatches, perfect_matches, st_error>>

\* the early returns: a table is None, or a key column is not in its table
ReturnEmpty ==
    /\ pc = "call"
    /\ ~usable
    /\ st_error' =
          IF df_mls = NoTable \/ df_cama = NoTable THEN st_error
          ELSE IF UNIQUE_ID_COLUMN.mls_col \notin df_mls.columns
          THEN Append(st_error, <<"not found in MLS data", UNIQUE_ID_COLUMN.mls_col>>)
          ELSE Append(st_error, <<"not found in CAMA data", UNIQUE_ID_COLUMN.cama_col>>)
    /\ result' = Returned(EmptyFrame, EmptyFrame, EmptyFrame, EmptyFrame, EmptyFrame)
    /\ pc' = "done"
    /\ UNCHANGED <<inputs, probe, script,
                   merged_df, matched_df, index, missing_in_cama,
                   missing_in_mls, value_mismatches, perfect_matches>>

\* variant: the key column of the MLS table is renamed in place
Merge_in_place ==
    /\ pc = "call"
    /\ usable
    /\ LET key == UNIQUE_ID_COLUMN.cama_col
           df_mls_renamed == rename(df_mls, UNIQUE_ID_COLUMN.mls_col, key)
       IN /\ df_mls' = df_mls_renamed
          /\ matched_df' = merge_inner(df_mls_renamed, df_cama, key)
          /\ merged_df' = merge_outer(df_mls_renamed, df_cama, key)
    /\ missing_in_cama' = <<>>
    /\ missing_in_mls' = <<>>
    /\ value_mismatches' = <<>>
    /\ perfect_matches' = <<>>
    /\ index' = 1
    /\ pc' = "loop"
    /\ UNCHANGED <<df_cama, cols_to_compare_categorical, NUMERIC_TOLERANCE,
                   SKIP_ZERO_VALUES, probe, script, st_error, result>>

\* variant: the four lists live outside the function and are not created
\* anew by the call
Merge_accumulating ==
    /\ pc = "call"
    /\ usable
    /\ LET key == UNIQUE_ID_COLUMN.cama_col
           df_mls_renamed == rename(df_mls, UNIQUE_ID_COLUMN.mls_col, key)
       IN /\ matched_df' = merge_inner(df_mls_renamed, df_cama, key)
          /\ merged_df' = merge_outer(df_mls_renamed, df_cama, key)
    /\ index' = 1
    /\ pc' = "loop"
    /\ UNCHANGED <<inputs, probe, script, st_error, result, missing_in_cama,
                   missing_in_mls, value_mismatches, perfect_matches>>

\* rename the MLS key on a copy, compute both joins, create the four lists
Merge ==
    /\ pc = "call"
    /\ usable
    /\ LET key == UNIQUE_ID_COLUMN.cama_col
           df_mls_renamed == rename(df_mls, UNIQUE_ID_COLUMN.mls_col, key)
       IN /\ matched_df' = merge_inner(df_mls_renamed, df_cama, key)
          /\ merged_df' = merge_outer(df_mls_renamed, df_cama, key)
    /\ missing_in_cama' = <<>>
    /\ missing_in_mls' = <<>>
    /\ value_mismatches' = <<>>
    /\ perfect_matches' = <<>>
    /\ index' = 1
    /\ pc' = "loop"
    /\ UNCHANGED <<inputs, probe, script,
                   st_error, result>>

InLoop == pc = "loop" /\ index <= Len(merged_df)
row == merged_df[index].vals
merge_status == merged_df[index].merge
record_id == get(row, UNIQUE_ID_COLUMN.cama_col, Null)

RowLeftOnly ==
    /\ InLoop
    /\ merge_status = "left_only"
    /\ missing_in_cama' =
          Append(missing_in_cama,
                 [Parcel_ID |-> record_id,
                  Listing_Number |-> get(row, "Listing #", TxtEmpty),
                  Closed_Date |-> get(row, "Closed Date", TxtEmpty)])
    /\ index' = index + 1
    /\ UNCHANGED <<inputs, probe, script,
                   pc, merged_df, matched_df, missing_in_mls,
                   value_mismatches, perfect_matches, st_error, result>>

RowRightOnly ==
    /\ InLoop
    /\ merge_status = "right_only"
    /\ missing_in_mls' = Append(missing_in_mls, [Parcel_ID |-> record_id])
    /\ index' = index + 1
    /\ UNCHANGED <<inputs, probe, script,
                   pc, merged_df, matched_df, missing_in_cama,
                   value_mismatches, perfect_matches, st_error, result>>

\* the address lookups of a 'both' row (a column the joined row does not
\* have reads as '') and the link built from them
context(r) ==
    LET address == get(r, ADDRESS_COLUMNS.address, Txt(<<>>))
        city == get(r, ADDRESS_COLUMNS.city, Txt(<<>>))
        state == get(r, ADDRESS_COLUMNS.state, Txt(<<>>))
        zip_code == get(r, ADDRESS_COLUMNS.zip, Txt(<<>>))
    IN [Address |-> address, City |-> city, State |-> state, Zip |-> zip_code,
        Zillow_URL |-> format_zillow_url(address, city, state, zip_code)]

with_context(entries, r) ==
    [i \in 1..Len(entries) |-> entries[i] @@ context(r)]

outcome_of(r) ==
    compare_row(r, DOMAIN r, get(r, UNIQUE_ID_COLUMN.cama_col, Null),
                COLUMNS_TO_COMPARE, COLUMNS_TO_COMPARE_SUM,
                cols_to_compare_categorical, SKIP_ZERO_VALUES, NUMERIC_TOLERANCE)

RowBoth ==
    /\ InLoop
    /\ merge_status = "both"
    /\ LET outcome == outcome_of(row)
       IN /\ perfect_matches' =
                perfect_matches \o with_context(perfect_match(record_id, outcome), row)
          /\ value_mismatches' =
                value_mismatches \o with_context(outcome.record_mismatches, row)
    /\ index' = index + 1
    /\ UNCHANGED <<inputs, probe, script,
                   pc, merged_df, matched_df, missing_in_cama,
                   missing_in_mls, st_error, result>>

Return ==
    /\ pc = "loop"
    /\ index > Len(merged_df)
    /\ result' = Returned(missing_in_cama, missing_in_mls, value_mismatches,
                          matched_df, perfect_matches)
    /\ pc' = "done"
    /\ UNCHANGED <<inputs, probe, script,
                   merged_df, matched_df, index, missing_in_cama,
                   missing_in_mls, value_mismatches, perfect_matches, st_error>>

Next ==
    \/ ReturnEmpty
    \/ Merge
    \/ RowLeftOnly
    \/ RowRightOnly
    \/ RowBoth
    \/ Return

Spec == Init /\ [][Next]_vars

\* ------------------------------------------------------------------------
\* Two runs of compare_data_enhanced in one session on the same tables
\* ------------------------------------------------------------------------
\* The script runs again in the same session on the same uploaded tables:
\* the sidebar checkbox is read anew and the button calls the function
\* again.  The locals of the finished call are dead; they keep their last
\* values here until the next call assigns them.
Rerun ==
    /\ pc = "done"
    /\ runs < MaxRuns
    /\ \E flag \in BOOLEAN : SKIP_ZERO_VALUES' = flag
    /\ previous' = [ran |-> TRUE, SKIP_ZERO_VALUES |-> SKIP_ZERO_VALUES,
                    result |-> result]
    /\ runs' = runs + 1
    /\ result' = NoResult
    /\ st_error' = <<>>
    /\ pc' = "call"
    /\ UNCHANGED <<df_mls, df_cama, cols_to_compare_categorical,
                   NUMERIC_TOLERANCE, probe, session_state, zip_data,
                   merged_df, matched_df, index, missing_in_cama,
                   missing_in_mls, value_mismatches, perfect_matches>>

InitRerun ==
    /\ Fresh
    /\ \/ InitOneRecord
       \/ InitCategorical
       \/ InitUnusable
       \/ /\ InitRichRecords
          /\ Len(df_mls.rows) <= 2
          /\ Len(df_cama.rows) <= 2

NextRerun ==
    \/ ReturnEmpty
    \/ Merge
    \/ RowLeftOnly
    \/ RowRightOnly
    \/ RowBoth
    \/ Return
    \/ Rerun

SpecRerun == InitRerun /\ [][NextRerun]_vars


\* ------------------------------------------------------------------------
\* The script around the call: the per-city statistics, the archive of all
\* reports, and a further run in the same session on newly uploaded tables
\* ------------------------------------------------------------------------
NoColumn == "<None>"

\* the order of text values: code point order of the characters used here
CharOrder == <<" ">> \o DigitChars \o UpperChars \o LowerChars
CharRank(c) == CHOOSE i \in 1..Len(CharOrder) : CharOrder[i] = c
RECURSIVE TextLess(_, _)
TextLess(a, b) ==
    IF b = <<>> THEN FALSE
    ELSE IF a = <<>> THEN TRUE
    ELSE IF Head(a) # Head(b) THEN CharRank(Head(a)) < CharRank(Head(b))
    ELSE TextLess(Tail(a), Tail(b))

\* the group keys of df.groupby(col): the non-null values, ascending
RECURSIVE SortedGroups(_)
SortedGroups(S) ==
    IF S = {} THEN <<>>
    ELSE LET m == CHOOSE x \in S : \A y \in S \ {x} : TextLess(x.s, y.s)
         IN <<m>> \o SortedGroups(S \ {m})

group_keys(rows, col) ==
    SortedGroups({rows[i][col] : i \in {j \in 1..Len(rows) : notna(rows[j][col])}})

\* groupby(col)[id_col].count() of one group
group_count(rows, col, id_col, key) ==
    Cardinality({i \in 1..Len(rows) : rows[i][col] = key /\ notna(rows[i][id_col])})

\* (matched / total * 100).round(2), in hundredths of a percent
match_rate(matched, total) ==
    LET q == (matched * 10000) \div total
        r == (matched * 10000) % total
    IN IF 2 * r > total \/ (2 * r = total /\ q % 2 = 1) THEN q + 1 ELSE q

\* sort_values('Total_CAMA_Parcels', ascending=False): equal totals keep
\* their order
RECURSIVE sort_values(_)
sort_values(rows) ==
    IF rows = <<>> THEN <<>>
    ELSE LET top == CHOOSE i \in 1..Len(rows) :
                      /\ \A j \in 1..Len(rows) :
                            rows[j].Total_CAMA_Parcels <= rows[i].Total_CAMA_Parcels
                      /\ \A j \in 1..(i - 1) :
                            rows[j].Total_CAMA_Parcels < rows[i].Total_CAMA_Parcels
         IN <<rows[top]>> \o
            sort_values(SubSeq(rows, 1, top - 1) \o SubSeq(rows, top + 1, Len(rows)))

\* the city_comparison frame: one row per city of the CAMA table
city_comparison(cama, matched, cama_city_col, cama_id_col) ==
    LET cama_cities == group_keys(cama.rows, cama_city_col)
        matched_rows == [i \in 1..Len(matched) |-> matched[i].vals]
        line(city) ==
            LET total == group_count(cama.rows, cama_city_col, cama_id_col, city)
                found == group_count(matched_rows, cama_city_col, cama_id_col, city)
            IN [City |-> city, Total_CAMA_Parcels |-> total,
                Matched_Parcels |-> found,
                Match_Rate |-> match_rate(found, total),
                Not_Matched |-> total - found]
    IN sort_values([j \in 1..Len(cama_cities) |-> line(cama_cities[j])])

\* the city column of the CAMA table, CITYNAME preferred
city_column(cama) ==
    IF "CITYNAME" \in cama.columns THEN "CITYNAME"
    ELSE IF "City" \in cama.columns THEN "City"
    ELSE NoColumn

frame_columns(frame) == IF frame = <<>> THEN {} ELSE DOMAIN frame[1].vals

\* create_zip_with_all_reports: a report is written when its frame has rows
\* (an absent file reads as <<>> here), the statistics when a frame was
\* handed over and has rows
create_zip_with_all_reports(df_missing_cama, df_missing_mls, df_value_mismatches, df_perfect_matches, city_comparison_df) ==
    [built |-> TRUE,
     missing_in_CAMA |-> df_missing_cama,
     missing_in_MLS |-> df_missing_mls,
     value_mismatches |-> df_value_mismatches,
     perfect_matches |-> df_perfect_matches,
     city_match_statistics |->
        IF city_comparison_df.stored THEN city_comparison_df.frame ELSE <<>>]

\* the script after the call returned: the statistics are computed and
\* stored in the session state when the CAMA table has a city column that
\* is also a column of the non-empty matched frame; the archive is then
\* built with whatever the session state holds
Report ==
    /\ pc = "done"
    /\ LET cama_city_col == city_column(df_cama)
           computed ==
               /\ cama_city_col # NoColumn
               /\ result.matched_df # <<>>
               /\ cama_city_col \in frame_columns(result.matched_df)
           state ==
               IF computed
               THEN [stored |-> TRUE,
                     frame |-> city_comparison(df_cama, result.matched_df,
                                               cama_city_col,
                                               UNIQUE_ID_COLUMN.cama_col)]
               ELSE session_state
       IN /\ session_state' = state
          /\ zip_data' = create_zip_with_all_reports(
                            result.missing_in_cama, result.missing_in_mls,
                            result.value_mismatches, result.perfect_matches,
                            state)
    /\ pc' = "shown"
    /\ UNCHANGED <<inputs, probe, runs, previous, merged_df, matched_df, index,
                   missing_in_cama, missing_in_mls, value_mismatches,
                   perfect_matches, st_error, result>>

\* tables of a session: a CAMA table with a CITYNAME column, a City column,
\* or neither, or without its key column; an MLS table with or without a
\* City column of its own
TxtAlliance == Txt(<<"A", "l", "l", "i", "a", "n", "c", "e">>)
SessionCAMARow(id, col, city) ==
    IF col = NoColumn THEN ("PARID" :> Num(id))
    ELSE ("PARID" :> Num(id)) @@ (col :> city)
SessionCAMATable(col, ids, cities) ==
    Table(DOMAIN SessionCAMARow(1, col, Null),
          [i \in 1..Len(ids) |-> SessionCAMARow(ids[i], col, cities[i])])
SessionCAMATables ==
    {SessionCAMATable(NoColumn, <<1>>, <<Null>>),
     SessionCAMATable(NoColumn, <<1, 2>>, <<Null, Null>>),
     SessionCAMATable("CITYNAME", <<2>>, <<TxtAlliance>>),
     SessionCAMATable("CITYNAME", <<1, 2>>, <<TxtNorthCanton, TxtNorthCanton>>),
     SessionCAMATable("CITYNAME", <<1, 2>>, <<TxtNorthCanton, TxtAlliance>>),
     SessionCAMATable("CITYNAME", <<2, 1>>, <<TxtNorthCanton, TxtAlliance>>),
     SessionCAMATable("City", <<1, 2>>, <<TxtAlliance, TxtNorthCanton>>),
     Table({"SFLA"}, <<("SFLA" :> Num(U(100)))>>)}
SessionMLSTables ==
    {Table({"Parcel Number"}, <<("Parcel Number" :> Num(1))>>),
     Table({"Parcel Number"}, <<("Parcel Number" :> Num(3))>>),
     Table({"Parcel Number", "City"},
           <<("Parcel Number" :> Num(1)) @@ ("City" :> TxtNorthCanton)>>)}

InitSession ==
    /\ Fresh
    /\ df_mls \in SessionMLSTables
    /\ df_cama \in SessionCAMATables
    /\ cols_to_compare_categorical = COLUMNS_TO_COMPARE_CATEGORICAL
    /\ NUMERIC_TOLERANCE = DefaultTolerance
    /\ SKIP_ZERO_VALUES = TRUE

\* other files are uploaded and the button is pressed again
NewRun ==
    /\ pc = "shown"
    /\ runs < MaxRuns
    /\ df_mls' \in SessionMLSTables
    /\ df_cama' \in SessionCAMATables
    /\ previous' = [ran |-> TRUE, SKIP_ZERO_VALUES |-> SKIP_ZERO_VALUES,
                    result |-> result]
    /\ runs' = runs + 1
    /\ result' = NoResult
    /\ st_error' = <<>>
    /\ zip_data' = NoZip
    /\ pc' = "call"
    /\ UNCHANGED <<cols_to_compare_categorical, NUMERIC_TOLERANCE,
                   SKIP_ZERO_VALUES, probe, session_state, merged_df,
                   matched_df, index, missing_in_cama, missing_in_mls,
                   value_mismatches, perfect_matches>>

NextSession ==
    \/ ReturnEmpty
    \/ Merge
    \/ RowLeftOnly
    \/ RowRightOnly
    \/ RowBoth
    \/ Return
    \/ Report
    \/ NewRun

SpecSession == InitSession /\ [][NextSession]_vars

\* ------------------------------------------------------------------------
\* A direct call of the comparator, in both argument orders
\* ------------------------------------------------------------------------
InitValuesEqual ==
    /\ val1 \in ProbeValues
    /\ val2 \in ProbeValues
    /\ equal = NotCalled
    /\ NUMERIC_TOLERANCE \in Tolerances
    /\ SKIP_ZERO_VALUES = TRUE
    /\ df_mls = NoTable
    /\ df_cama = NoTable
    /\ cols_to_compare_categorical = COLUMNS_TO_COMPARE_CATEGORICAL
    /\ pc = "idle"
    /\ merged_df = <<>>
    /\ matched_df = <<>>
    /\ index = 1
    /\ missing_in_cama = <<>>
    /\ missing_in_mls = <<>>
    /\ value_mismatches = <<>>
    /\ perfect_matches = <<>>
    /\ st_error = <<>>
    /\ result = NoResult
    /\ difference = NotCalled
    /\ runs = 1
    /\ previous = NoPrevious
    /\ session_state = NoCity
    /\ zip_data = NoZip

CallValuesEqual ==
    /\ pc = "idle"
    /\ equal = NotCalled
    /\ equal' = [called |-> TRUE,
                 fwd |-> values_equal(val1, val2, NUMERIC_TOLERANCE),
                 rev |-> values_equal(val2, val1, NUMERIC_TOLERANCE)]
    /\ UNCHANGED <<inputs, script, val1, val2, difference, pc, merged_df,
                   matched_df, index, missing_in_cama, missing_in_mls,
                   value_mismatches, perfect_matches, st_error, result>>

NextValuesEqual == CallValuesEqual

SpecValuesEqual == InitValuesEqual /\ [][NextValuesEqual]_vars

\* ------------------------------------------------------------------------
\* A direct call of calculate_difference
\* ------------------------------------------------------------------------
CallCalculateDifference ==
    /\ pc = "idle"
    /\ difference = NotCalled
    /\ difference' = [called |-> TRUE, value |-> calculate_difference(val1, val2)]
    /\ UNCHANGED <<inputs, script, val1, val2, equal, pc, merged_df,
                   matched_df, index, missing_in_cama, missing_in_mls,
                   value_mismatches, perfect_matches, st_error, result>>

NextCalculateDifference == CallCalculateDifference

SpecCalculateDifference == InitValuesEqual /\ [][NextCalculateDifference]_vars

\* ------------------------------------------------------------------------
\* Vocabulary of the properties
\* ------------------------------------------------------------------------
ProcessedBoth ==
    {i \in 1..Len(merged_df) : i < index /\ merged_df[i].merge = "both"}
RowAt(i) == merged_df[i].vals
IdAt(i) == merged_df[i].vals[UNIQUE_ID_COLUMN.cama_col]

MismatchesOfRecord(id) == SelectSeq(value_mismatches, LAMBDA e : e.Parcel_ID = id)
MismatchesOfField(id, field) ==
    SelectSeq(value_mismatches, LAMBDA e : e.Parcel_ID = id /\ e.Field_MLS = field)
PerfectOfRecord(id) == SelectSeq(perfect_matches, LAMBDA e : e.Parcel_ID = id)

RuleSeq(kind, mappings) == [i \in 1..Len(mappings) |-> [kind |-> kind, m |-> mappings[i]]]
ConfiguredRules ==
    RuleSeq("direct", COLUMNS_TO_COMPARE) \o RuleSeq("summed", COLUMNS_TO_COMPARE_SUM)
    \o RuleSeq("categorical", cols_to_compare_categorical)

CamaColumnsOf(R) == IF R.kind = "summed" THEN R.m.cama_cols ELSE <<R.m.cama_col>>

\* the rule's columns are all in the joined table
ColumnsPresent(r, R) ==
    /\ R.m.mls_col \in DOMAIN r
    /\ \A j \in 1..Len(CamaColumnsOf(R)) : CamaColumnsOf(R)[j] \in DOMAIN r

\* blank as the specification defines it: null, or text empty after trimming
BlankValue(v) == v.k = "null" \/ (v.k = "str" /\ \A j \in 1..Len(v.s) : v.s[j] = " ")

\* the CAMA side of a rule is blank: the value, or every component of a sum
CamaBlank(r, R) ==
    \A j \in 1..Len(CamaColumnsOf(R)) : BlankValue(r[CamaColumnsOf(R)[j]])
MlsBlank(r, R) == BlankValue(r[R.m.mls_col])

\* numeric reading of a value: [num, n]
Numeric(v) ==
    IF v.k = "num" THEN [num |-> TRUE, n |-> v.n]
    ELSE IF v.k = "str" /\ v.s # <<>> /\ \A j \in 1..Len(v.s) : IsDigit(v.s[j])
         THEN [num |-> TRUE, n |-> to_numeric(v).n]
    ELSE [num |-> FALSE, n |-> 0]

\* sum of the non-null components of a summed rule: [num, n], num false
\* when a non-null component is not a number
RECURSIVE ComponentSum(_, _)
ComponentSum(r, cols) ==
    IF cols = <<>> THEN [num |-> TRUE, n |-> 0]
    ELSE LET rest == ComponentSum(r, Tail(cols))
             v == r[Head(cols)]
         IN IF v.k = "null" THEN rest
            ELSE [num |-> rest.num /\ Numeric(v).num,
                  n |-> IF rest.num /\ Numeric(v).num THEN Numeric(v).n + rest.n ELSE 0]

\* the two sides of a direct or summed rule, numerically
MlsSide(r, R) == Numeric(r[R.m.mls_col])
CamaSide(r, R) ==
    IF R.kind = "summed" THEN ComponentSum(r, R.m.cama_cols) ELSE Numeric(r[R.m.cama_col])

IsZeroSide(x) == x.num /\ x.n = 0
WithinTolerance(a, b) == Abs(a - b) - NUMERIC_TOLERANCE <= Abs(b) \div RtolDen

\* skipped by the zero-skip policy
ZeroSkipped(r, R) ==
    /\ R.kind \in {"direct", "summed"}
    /\ SKIP_ZERO_VALUES
    /\ IsZeroSide(MlsSide(r, R))
    /\ IsZeroSide(CamaSide(r, R))

\* a rule that was actually evaluated: not skipped for a missing column, a
\* blank value or two zeros
Evaluated(r, R) ==
    /\ ColumnsPresent(r, R)
    /\ ~MlsBlank(r, R)
    /\ ~CamaBlank(r, R)
    /\ ~ZeroSkipped(r, R)

EvaluatedRules(r) == SelectSeq(ConfiguredRules, LAMBDA R : Evaluated(r, R))
FieldNames(rules) == [j \in 1..Len(rules) |-> rules[j].m.mls_col]

\* ------------------------------------------------------------------------
\* C1: every joined 'both' record has mismatch entries and no perfect-match
\* entry, or exactly one perfect-match entry and no mismatch entry, or
\* neither, and neither only when no rule was evaluated for it.
\* ------------------------------------------------------------------------
C1_ExactlyOneOutcome ==
    \A i \in ProcessedBoth :
        LET nm == Len(MismatchesOfRecord(IdAt(i)))
            np == Len(PerfectOfRecord(IdAt(i)))
        IN \/ nm >= 1 /\ np = 0
           \/ nm = 0 /\ np = 1
           \/ nm = 0 /\ np = 0 /\ EvaluatedRules(RowAt(i)) = <<>>

C1_Witness ==
    /\ pc = "done"
    /\ \E i \in ProcessedBoth : Len(MismatchesOfRecord(IdAt(i))) >= 1
    /\ \E i \in ProcessedBoth : Len(PerfectOfRecord(IdAt(i))) = 1

\* ------------------------------------------------------------------------
\* C2: a perfect-match entry is emitted only if a rule was actually
\* evaluated, and its Fields_Compared and Fields_List name exactly the rules
\* that were not skipped (blank, two zeros with the flag on, missing column).
\* ------------------------------------------------------------------------
C2_PerfectCountsEvaluatedOnly ==
    \A i \in ProcessedBoth :
        \A k \in 1..Len(PerfectOfRecord(IdAt(i))) :
            LET e == PerfectOfRecord(IdAt(i))[k]
                ev == EvaluatedRules(RowAt(i))
            IN /\ ev # <<>>
               /\ e.Fields_Compared = Len(ev)
               /\ e.Fields_List = join(", ", FieldNames(ev))

\* ------------------------------------------------------------------------
\* C3: with identifiers unique within each table, the run partitions them:
\* missing-in-CAMA has one entry per identifier of MLS only, missing-in-MLS
\* one per identifier of CAMA only, the matched join exactly the identifiers
\* of both, and mismatch and perfect-match entries carry matched identifiers.
\* ------------------------------------------------------------------------
KeysIn(df, col) == {df.rows[i][col] : i \in 1..Len(df.rows)}
UniqueKeys(df, col) ==
    \A i, j \in 1..Len(df.rows) : i # j => df.rows[i][col] # df.rows[j][col]
OnePerKey(entries, keys) ==
    /\ \A k \in keys : Len(SelectSeq(entries, LAMBDA e : e.Parcel_ID = k)) = 1
    /\ \A j \in 1..Len(entries) : entries[j].Parcel_ID \in keys

InputsUsable ==
    /\ df_mls # NoTable
    /\ df_cama # NoTable
    /\ "Parcel Number" \in df_mls.columns
    /\ "PARID" \in df_cama.columns

C3_Partition ==
    (pc = "done" /\ InputsUsable /\ UniqueKeys(df_mls, UNIQUE_ID_COLUMN.mls_col)
                 /\ UniqueKeys(df_cama, UNIQUE_ID_COLUMN.cama_col)) =>
        LET M == KeysIn(df_mls, UNIQUE_ID_COLUMN.mls_col)
            C == KeysIn(df_cama, UNIQUE_ID_COLUMN.cama_col)
            matched == [j \in 1..Len(result.matched_df) |->
                          [Parcel_ID |-> result.matched_df[j].vals[UNIQUE_ID_COLUMN.cama_col]]]
        IN /\ OnePerKey(result.missing_in_cama, M \ C)
           /\ OnePerKey(result.missing_in_mls, C \ M)
           /\ OnePerKey(matched, M \cap C)
           /\ \A j \in 1..Len(result.value_mismatches) :
                 result.value_mismatches[j].Parcel_ID \in M \cap C
           /\ \A j \in 1..Len(result.perfect_matches) :
                 result.perfect_matches[j].Parcel_ID \in M \cap C

C3_Witness ==
    /\ pc = "done"
    /\ InputsUsable
    /\ Len(result.missing_in_cama) = 1
    /\ Len(result.missing_in_mls) = 1
    /\ Len(result.matched_df) = 1
    /\ Len(result.value_mismatches) + Len(result.perfect_matches) = 1

\* ------------------------------------------------------------------------
\* C4: with the zero-skip flag on, a Direct or Summed rule whose two sides
\* are both numerically zero emits no mismatch; when exactly one side is
\* zero and the other differs from it beyond tolerance, the rule emits
\* exactly one mismatch entry.
\* ------------------------------------------------------------------------
ZeroRules == RuleSeq("direct", COLUMNS_TO_COMPARE) \o RuleSeq("summed", COLUMNS_TO_COMPARE_SUM)

OneSideZero(r, R) ==
    /\ MlsSide(r, R).num
    /\ CamaSide(r, R).num
    /\ IsZeroSide(MlsSide(r, R)) # IsZeroSide(CamaSide(r, R))
    /\ ~WithinTolerance(MlsSide(r, R).n, CamaSide(r, R).n)

C4_ZeroSkip ==
    SKIP_ZERO_VALUES =>
        \A i \in ProcessedBoth : \A j \in 1..Len(ZeroRules) :
            LET R == ZeroRules[j]
                r == RowAt(i)
                n == Len(MismatchesOfField(IdAt(i), R.m.mls_col))
            IN (ColumnsPresent(r, R) /\ ~MlsBlank(r, R) /\ ~CamaBlank(r, R)) =>
                  /\ (IsZeroSide(MlsSide(r, R)) /\ IsZeroSide(CamaSide(r, R))) => n = 0
                  /\ OneSideZero(r, R) => n = 1

C4_Witness ==
    /\ pc = "done"
    /\ SKIP_ZERO_VALUES
    /\ \E i \in ProcessedBoth :
          /\ RowAt(i)["Above Grade Finished Area"] = Num(0)
          /\ RowAt(i)["SFLA"] = Num(5 * Unit)
          /\ Len(MismatchesOfField(IdAt(i), "Above Grade Finished Area")) = 1

\* ------------------------------------------------------------------------
\* C5: a rule of any kind whose MLS value or CAMA value is blank (for a
\* Summed rule: whose CAMA components are blank) is skipped: it emits no
\* mismatch entry and is not counted among the evaluated fields.
\* ------------------------------------------------------------------------
NonBlankRules(r) ==
    SelectSeq(ConfiguredRules,
              LAMBDA R : ColumnsPresent(r, R) /\ ~MlsBlank(r, R) /\ ~CamaBlank(r, R))

C5_BlankSkip ==
    \A i \in ProcessedBoth :
        /\ \A j \in 1..Len(ConfiguredRules) :
              LET R == ConfiguredRules[j]
                  r == RowAt(i)
              IN (ColumnsPresent(r, R) /\ (MlsBlank(r, R) \/ CamaBlank(r, R))) =>
                    Len(MismatchesOfField(IdAt(i), R.m.mls_col)) = 0
        /\ \A k \in 1..Len(PerfectOfRecord(IdAt(i))) :
              PerfectOfRecord(IdAt(i))[k].Fields_Compared <= Len(NonBlankRules(RowAt(i)))

\* ------------------------------------------------------------------------
\* C6: when a table is absent or a key column is not in its table, the run
\* joins nothing, evaluates no rule and returns five empty result sets; a
\* missing key column is reported, not raised.
\* ------------------------------------------------------------------------
FiveEmpty ==
    [returned |-> TRUE, missing_in_cama |-> <<>>, missing_in_mls |-> <<>>,
     value_mismatches |-> <<>>, matched_df |-> <<>>, perfect_matches |-> <<>>]

C6_UnusableInputsReturnEmpty ==
    (pc # "idle" /\ ~InputsUsable) =>
        /\ pc \in {"call", "done"}
        /\ merged_df = <<>> /\ matched_df = <<>>
        /\ value_mismatches = <<>> /\ perfect_matches = <<>>
        /\ missing_in_cama = <<>> /\ missing_in_mls = <<>>
        /\ pc = "done" =>
              /\ result = FiveEmpty
              /\ (df_mls # NoTable /\ df_cama # NoTable) => Len(st_error) = 1

C6_Witness ==
    /\ pc = "done"
    /\ df_mls # NoTable /\ df_cama # NoTable
    /\ "Parcel Number" \notin df_mls.columns
    /\ Len(df_mls.rows) = 1 /\ Len(df_cama.rows) = 1
    /\ result = FiveEmpty

\* ------------------------------------------------------------------------
\* C7: the tolerance boundary of values_equal is inclusive: two numbers
\* compare equal when they differ by at most the tolerance and unequal when
\* they differ by more than the tolerance plus the relative allowance; with
\* tolerance 0.01, 100.00 equals 100.01 and does not equal 100.02.
\* ------------------------------------------------------------------------
C7_ToleranceInclusive ==
    (equal.called /\ val1.k = "num" /\ val2.k = "num") =>
        LET d == Abs(val1.n - val2.n)
        IN /\ d <= NUMERIC_TOLERANCE => equal.fwd
           /\ d - NUMERIC_TOLERANCE > Abs(val2.n) \div RtolDen => ~equal.fwd
           /\ (NUMERIC_TOLERANCE = 10000 /\ val1 = Num(100000000)) =>
                 /\ val2 = Num(100010000) => equal.fwd
                 /\ val2 = Num(100020000) => ~equal.fwd

C7_Witness ==
    /\ equal.called
    /\ NUMERIC_TOLERANCE = 10000
    /\ val1 = Num(100000000)
    /\ val2 = Num(100010000)
    /\ equal.fwd

\* ------------------------------------------------------------------------
\* C8: values_equal is reflexive and symmetric: values_equal(x, x) holds
\* and values_equal(a, b) = values_equal(b, a) for all values.
\* ------------------------------------------------------------------------
C8_ReflexiveSymmetric ==
    equal.called =>
        /\ val1 = val2 => equal.fwd
        /\ equal.fwd = equal.rev

\* ------------------------------------------------------------------------
\* C9: a Categorical rule on non-blank values expects expected_if_true when
\* contains_text occurs in the MLS text and expected_if_false otherwise; it
\* passes iff the CAMA value equals the expected value, and a failure emits
\* exactly one mismatch entry carrying that expected value.
\* ------------------------------------------------------------------------
Occurs(v, m) ==
    IF m.case_sensitive THEN contains(m.mls_check_contains, pystr(v))
    ELSE contains(lower(m.mls_check_contains), lower(pystr(v)))

ExpectedCode(v, m) ==
    IF Occurs(v, m) THEN m.cama_expected_if_true ELSE m.cama_expected_if_false

\* equality of coded values: numbers within tolerance, otherwise trimmed
\* case-insensitive text
CodesEqual(a, b) ==
    IF Numeric(a).num /\ Numeric(b).num
    THEN WithinTolerance(Numeric(a).n, Numeric(b).n)
    ELSE lower(strip(pystr(a))) = lower(strip(pystr(b)))

C9_Categorical ==
    \A i \in ProcessedBoth : \A j \in 1..Len(cols_to_compare_categorical) :
        LET m == cols_to_compare_categorical[j]
            R == [kind |-> "categorical", m |-> m]
            r == RowAt(i)
            ms == MismatchesOfField(IdAt(i), m.mls_col)
            expected == ExpectedCode(r[m.mls_col], m)
        IN (ColumnsPresent(r, R) /\ ~MlsBlank(r, R) /\ ~CamaBlank(r, R)) =>
              IF CodesEqual(r[m.cama_col], expected)
              THEN Len(ms) = 0
              ELSE Len(ms) = 1 /\ ms[1].Expected_CAMA_Value = expected

\* ------------------------------------------------------------------------
\* C10: a Summed rule that is not skipped passes iff the MLS value equals,
\* within tolerance, the sum of the CAMA components (null counting 0); a
\* failure emits exactly one mismatch entry whose CAMA_Value is the sum and
\* whose Difference is MLS minus the sum with two decimals.
\* ------------------------------------------------------------------------
SummedOutcomeAsClaimed(i, R) ==
    LET r == RowAt(i)
        a == MlsSide(r, R)
        b == CamaSide(r, R)
        ms == MismatchesOfField(IdAt(i), R.m.mls_col)
    IN IF a.num /\ b.num /\ WithinTolerance(a.n, b.n)
       THEN Len(ms) = 0
       ELSE /\ Len(ms) = 1
            /\ ms[1].CAMA_Value = Num(b.n)
            /\ ms[1].Difference = Txt(Format2f(a.n - b.n))
            /\ (a.n = 800 * Unit /\ b.n = 750 * Unit) =>
                  ms[1].Difference = Txt(<<"5", "0", ".", "0", "0">>)

SummedRules == RuleSeq("summed", COLUMNS_TO_COMPARE_SUM)

\* the claim as stated, read on the records whose CAMA components are
\* numbers or null: every Summed rule that is not skipped, whatever the
\* MLS value
C10_SummedAnyMlsValue ==
    \A i \in ProcessedBoth : \A j \in 1..Len(SummedRules) :
        (/\ Evaluated(RowAt(i), SummedRules[j])
         /\ CamaSide(RowAt(i), SummedRules[j]).num) =>
            SummedOutcomeAsClaimed(i, SummedRules[j])

\* the claim for numeric values: the MLS value and every non-null component
\* are numbers
C10_SummedNumeric ==
    \A i \in ProcessedBoth : \A j \in 1..Len(SummedRules) :
        (/\ Evaluated(RowAt(i), SummedRules[j])
         /\ MlsSide(RowAt(i), SummedRules[j]).num
         /\ CamaSide(RowAt(i), SummedRules[j]).num) =>
            SummedOutcomeAsClaimed(i, SummedRules[j])

C10_Witness ==
    /\ pc = "done"
    /\ \E i \in ProcessedBoth :
          /\ RowAt(i)["Below Grade Finished Area"] = Num(800 * Unit)
          /\ ComponentSum(RowAt(i), COLUMNS_TO_COMPARE_SUM[1].cama_cols) =
                [num |-> TRUE, n |-> 750 * Unit]
          /\ Len(MismatchesOfField(IdAt(i), "Below Grade Finished Area")) = 1
          /\ MismatchesOfField(IdAt(i), "Below Grade Finished Area")[1].Difference =
                Txt(<<"5", "0", ".", "0", "0">>)

\* ------------------------------------------------------------------------
\* C11: a rule that names a column the joined table does not have (the MLS
\* field, the CAMA field, or any component of a sum) yields no mismatch
\* entry for any record and is not counted as compared, and the entries of
\* every record are those of a run configured without such rules.
\* ------------------------------------------------------------------------
PresentOnly(r, kind, mappings) ==
    SelectSeq(mappings, LAMBDA m : ColumnsPresent(r, [kind |-> kind, m |-> m]))

OutcomeWithoutAbsent(r) ==
    compare_row(r, DOMAIN r, get(r, UNIQUE_ID_COLUMN.cama_col, Null),
                PresentOnly(r, "direct", COLUMNS_TO_COMPARE),
                PresentOnly(r, "summed", COLUMNS_TO_COMPARE_SUM),
                PresentOnly(r, "categorical", cols_to_compare_categorical),
                SKIP_ZERO_VALUES, NUMERIC_TOLERANCE)

AbsentRules(r) == SelectSeq(ConfiguredRules, LAMBDA R : ~ColumnsPresent(r, R))

C11_AbsentColumnRuleSkipped ==
    \A i \in ProcessedBoth :
        LET r == RowAt(i)
            absent == AbsentRules(r)
            without == OutcomeWithoutAbsent(r)
            compared == Len(without.fields_compared)
        IN /\ \A k \in 1..Len(absent) :
                 MismatchesOfField(IdAt(i), absent[k].m.mls_col) = <<>>
           /\ \A k \in 1..Len(PerfectOfRecord(IdAt(i))) :
                 PerfectOfRecord(IdAt(i))[k].Fields_Compared = compared
           /\ MismatchesOfRecord(IdAt(i)) =
                 with_context(without.record_mismatches, r)
           /\ PerfectOfRecord(IdAt(i)) =
                 with_context(perfect_match(IdAt(i), without), r)

\* a record whose sum rule lacks a component column, although its MLS field
\* is there with a value, was processed and another rule reported a mismatch
C11_Witness ==
    /\ pc = "done"
    /\ \E i \in ProcessedBoth :
          /\ COLUMNS_TO_COMPARE_SUM[1].mls_col \in DOMAIN RowAt(i)
          /\ "UFEATAREA" \notin DOMAIN RowAt(i)
          /\ RowAt(i)[COLUMNS_TO_COMPARE_SUM[1].mls_col] = Num(U(800))
          /\ Len(MismatchesOfRecord(IdAt(i))) >= 1

\* ------------------------------------------------------------------------
\* C12: a run is determined by its inputs: a second run in the same session
\* on the same tables, rules, tolerance and zero-skip flag returns the same
\* five result sets as the run before it, entry for entry and in the same
\* order.
\* ------------------------------------------------------------------------
SameInputsAsBefore ==
    previous.ran /\ previous.SKIP_ZERO_VALUES = SKIP_ZERO_VALUES

C12_Deterministic ==
    (pc = "done" /\ SameInputsAsBefore) => result = previous.result

\* a second run on the same inputs returned, with mismatches of more than
\* one rule and a record missing on either side
C12_Witness ==
    /\ pc = "done"
    /\ SameInputsAsBefore
    /\ Len(result.value_mismatches) >= 2
    /\ Len(result.missing_in_cama) >= 1
    /\ Len(result.missing_in_mls) >= 1

\* ------------------------------------------------------------------------
\* C13: the per-city statistics in the archive of a run come from the inputs
\* of that run only: they are absent when the current CAMA table has neither
\* city column, even if an earlier run of the session produced statistics,
\* and otherwise they are absent or the statistics of the current tables.
\* ------------------------------------------------------------------------
CurrentStatistics ==
    city_comparison(df_cama, result.matched_df, city_column(df_cama),
                    UNIQUE_ID_COLUMN.cama_col)

C13_ArchiveFromCurrentRunOnly ==
    pc = "shown" =>
        IF city_column(df_cama) = NoColumn
        THEN zip_data.city_match_statistics = <<>>
        ELSE \/ zip_data.city_match_statistics = <<>>
             \/ /\ city_column(df_cama) \in frame_columns(result.matched_df)
                /\ zip_data.city_match_statistics = CurrentStatistics

\* ------------------------------------------------------------------------
\* C14: an entry carries no Zillow link whenever the address, the city or
\* the postal code of its record is missing (null, the empty string, or a
\* column the joined table does not have), and carries a link only when
\* all three are present.
\* ------------------------------------------------------------------------
MissingComponent(v) == v.k = "null" \/ (v.k = "str" /\ v.s = <<>>)

AddressIncomplete(e) ==
    \/ MissingComponent(e.Address)
    \/ MissingComponent(e.City)
    \/ MissingComponent(e.Zip)

C14_LinkOnlyWhenAddressComplete ==
    \A e \in {value_mismatches[j] : j \in 1..Len(value_mismatches)} \cup
              {perfect_matches[j] : j \in 1..Len(perfect_matches)} :
        AddressIncomplete(e) <=> e.Zillow_URL = Null

\* ------------------------------------------------------------------------
\* C15: the returned lists follow the join and the configuration: mismatch
\* entries of different records are in join iteration order with the
\* entries of one record contiguous, the entries of one record are in rule
\* order (Direct, then Summed, then Categorical, each in configuration
\* order), and the missing-in-CAMA, missing-in-MLS and perfect-match
\* entries are in join iteration order.
\* ------------------------------------------------------------------------
JoinPosition(id) ==
    CHOOSE i \in 1..Len(merged_df) : merged_df[i].vals[UNIQUE_ID_COLUMN.cama_col] = id
RulePosition(field) ==
    CHOOSE k \in 1..Len(ConfiguredRules) : ConfiguredRules[k].m.mls_col = field

InJoinOrder(entries) ==
    \A j \in 1..(Len(entries) - 1) :
        JoinPosition(entries[j].Parcel_ID) < JoinPosition(entries[j + 1].Parcel_ID)

InJoinAndRuleOrder(entries) ==
    \A j \in 1..(Len(entries) - 1) :
        LET a == entries[j]
            b == entries[j + 1]
        IN \/ JoinPosition(a.Parcel_ID) < JoinPosition(b.Parcel_ID)
           \/ /\ a.Parcel_ID = b.Parcel_ID
              /\ RulePosition(a.Field_MLS) < RulePosition(b.Field_MLS)

C15_JoinAndConfigurationOrder ==
    (pc = "done" /\ InputsUsable /\ UniqueKeys(df_mls, UNIQUE_ID_COLUMN.mls_col)
                 /\ UniqueKeys(df_cama, UNIQUE_ID_COLUMN.cama_col)) =>
        /\ InJoinAndRuleOrder(result.value_mismatches)
        /\ InJoinOrder(result.missing_in_cama)
        /\ InJoinOrder(result.missing_in_mls)
        /\ InJoinOrder(result.perfect_matches)

\* two records with four mismatches each were returned, from an MLS table
\* that lists them in the opposite order of the join
C15_Witness ==
    /\ pc = "done"
    /\ InputsUsable
    /\ Len(result.value_mismatches) >= 8
    /\ Len(df_mls.rows) = 2
    /\ df_mls.rows[1][UNIQUE_ID_COLUMN.mls_col].n >
          df_mls.rows[2][UNIQUE_ID_COLUMN.mls_col].n

\* ------------------------------------------------------------------------
\* C16: non-numeric text in a Direct field, in the MLS value of a Summed
\* rule or in one of its CAMA components does not stop the run, and the
\* rule is skipped, or decided by string equality ignoring case, or
\* reported as one mismatch whose Difference is a sentinel, not a number.
\* As claimed the sentinel is always the text-difference one; in the code a
\* non-numeric CAMA component of a sum makes the sum NaN and the Difference
\* the not-applicable sentinel.
\* ------------------------------------------------------------------------
NonNumericText(v) == v.k = "str" /\ ~BlankValue(v) /\ ~Numeric(v).num

Malformed(r, R) ==
    /\ R.kind \in {"direct", "summed"}
    /\ ColumnsPresent(r, R)
    /\ \/ NonNumericText(r[R.m.mls_col])
       \/ \E j \in 1..Len(CamaColumnsOf(R)) : NonNumericText(r[CamaColumnsOf(R)[j]])

NumericRules ==
    {ConfiguredRules[k] : k \in {j \in 1..Len(ConfiguredRules) :
                                   ConfiguredRules[j].kind \in {"direct", "summed"}}}

TextOf(v) == IF v.k = "null" THEN <<>> ELSE lower(strip(pystr(v)))

\* the two sides of a direct rule read the same as text, ignoring case
SameText(r, R) ==
    R.kind = "direct" /\ TextOf(r[R.m.mls_col]) = TextOf(r[R.m.cama_col])

Degrades(i, R, sentinels) ==
    LET r == RowAt(i)
        ms == MismatchesOfField(IdAt(i), R.m.mls_col)
    IN \/ ms = <<>> /\ (~Evaluated(r, R) \/ SameText(r, R))
       \/ /\ Len(ms) = 1
          /\ ms[1].Difference \in sentinels
          /\ ~SameText(r, R)

C16_TextDifferenceOnly ==
    /\ pc = "done" => result.returned
    /\ \A i \in ProcessedBoth : \A R \in NumericRules :
          Malformed(RowAt(i), R) => Degrades(i, R, {Txt(TextDifference)})

C16_MalformedDegrades ==
    /\ pc = "done" => result.returned
    /\ \A i \in ProcessedBoth : \A R \in NumericRules :
          Malformed(RowAt(i), R) =>
              Degrades(i, R, {Txt(TextDifference), Txt(NotApplicable)})

\* the run returned for a record with a non-numeric component in a sum
\* against a numeric MLS value, reported with the not-applicable sentinel
C16_Witness ==
    /\ pc = "done"
    /\ result.returned
    /\ \E i \in ProcessedBoth :
          LET r == RowAt(i)
          IN /\ r["Below Grade Finished Area"] = Num(U(800))
             /\ r["RECROMAREA"] = TxtAbc
             /\ Len(MismatchesOfRecord(IdAt(i))) = 1
             /\ MismatchesOfRecord(IdAt(i))[1].Difference = Txt(NotApplicable)

\* ------------------------------------------------------------------------
\* C17: calculate_difference returns, for every pair of values, the signed
\* difference with thousands separators and two decimals when both are
\* numbers, the not-applicable sentinel whenever either is null (also when
\* the other is non-numeric text), and the text-difference sentinel when a
\* value is not a number.  Empty text, which is neither null nor a number,
\* may yield either sentinel here.
\* ------------------------------------------------------------------------
C17_ThreeForms ==
    difference.called =>
        IF val1.k = "null" \/ val2.k = "null"
        THEN difference.value = Txt(NotApplicable)
        ELSE IF Numeric(val1).num /\ Numeric(val2).num
        THEN difference.value = Txt(Format2f(Numeric(val1).n - Numeric(val2).n))
        ELSE IF BlankValue(val1) \/ BlankValue(val2)
        THEN difference.value \in {Txt(NotApplicable), Txt(TextDifference)}
        ELSE difference.value = Txt(TextDifference)

\* ------------------------------------------------------------------------
\* C18: the zero-skip flag does not change what a run returns: a run with
\* the flag on and a run with the flag off, on the same tables, rules and
\* tolerance, return the same five result sets, the Fields_Compared and
\* Fields_List of the perfect-match entries included.
\* ------------------------------------------------------------------------
FlagToggled ==
    previous.ran /\ previous.SKIP_ZERO_VALUES # SKIP_ZERO_VALUES

C19_InputsUnchanged == [][df_mls' = df_mls /\ df_cama' = df_cama]_vars

\* a run went through: the joined rows carry the CAMA key name while the MLS
\* table still has its own
C19_Witness ==
    /\ pc = "done"
    /\ result.returned
    /\ InputsUsable
    /\ UNIQUE_ID_COLUMN.cama_col \notin df_mls.columns
    /\ merged_df # <<>>
    /\ \A i \in 1..Len(merged_df) :
          /\ UNIQUE_ID_COLUMN.cama_col \in DOMAIN merged_df[i].vals
          /\ UNIQUE_ID_COLUMN.mls_col \notin DOMAIN merged_df[i].vals

====
